---- MODULE Spec2Model ----
(***************************************************************************)
(* A model of uba-eslint-config: the fragment library (configuration/*.js), *)
(* the composition engine generateEslintConfigByFeatures, the preset       *)
(* selector generateEslintConfig and the default export computed at module *)
(* load (eslint.config.js), and the formatter options generator            *)
(* generatePrettierConfig with its default export (prettier.config.js).    *)
(*                                                                         *)
(* A configuration object is a record                                      *)
(*   [name, files, ignores, globals, parser, rules]                        *)
(* where name is the symbol the object is bound to in the source, files    *)
(* and ignores are sets of glob strings (files = {} is "no file scope"),   *)
(* globals is a set of identifiers, parser is "" when the object selects   *)
(* none, and rules maps rule identifiers to the value written in the       *)
(* source ("2", "0", "error", "off", ...).                                 *)
(***************************************************************************)
EXTENDS Integers, Sequences, FiniteSets, TLC

VARIABLES
  env,        \* process.env.CI: "undefined" when unset, else its string value
  catalog,    \* the imported fragments, by the name eslint.config.js binds them to
  baseConfig, \* the default export, computed when the module is loaded
  ubaPrettierConfig, \* prettier.config.js's default export, computed at load
  call,       \* the caller's call: the entry point and its options object
  made,       \* the calls made so far, in order
  history     \* what the calls made so far returned or threw, in order

vars == <<env, catalog, baseConfig, ubaPrettierConfig, call, made, history>>

(***************************************************************************)
(* Bounds of the model.                                                    *)
(***************************************************************************)
\* A partial flag object passed to generateEslintConfigByFeatures supplies
\* at most MaxSupplied capability flags (or all eleven of them).
MaxSupplied == 2
\* A call of generateEslintConfig carries at most MaxOverrides capability flags.
MaxOverrides == 1
\* The caller invokes its function at most MaxCalls times.
MaxCalls == 2

(***************************************************************************)
(* JavaScript values.                                                      *)
(***************************************************************************)
\* A rule identifier: the plugin namespace ("" for a core rule) and the rule name,
\* so "import/no-cycle" is R("import", "no-cycle").
R(plugin, name) == <<plugin, name>>

NoRules == [r \in {} |-> "off"]

Config(name, files, ignores, globals, parser, rules) ==
  [name |-> name, files |-> files, ignores |-> ignores, globals |-> globals,
   parser |-> parser, rules |-> rules]

\* An element of the array literal in generateEslintConfigByFeatures: undefined,
\* one configuration object, or an array of configuration objects.
\* flat() keeps an undefined element as it is.
UndefinedEntry == Config("undefined", {}, {}, {}, "", NoRules)
Undefined == [type |-> "undefined", items |-> <<UndefinedEntry>>]
Object(c) == [type |-> "object", items |-> <<c>>]
Array(cs) == [type |-> "array", items |-> cs]

(***************************************************************************)
(* The fragment library.                                                   *)
(***************************************************************************)
TsFiles == {"**/*.ts", "**/*.tsx", "**/*.mts", "**/*.cts"}
JsFiles == {"**/*.js", "**/*.jsx", "**/*.mjs", "**/*.cjs"}

eslintConfig ==
  Object(Config("eslintConfig", {}, {}, {}, "",
    R("", "no-console") :> "error" @@ R("", "no-var") :> "error" @@ R("", "max-params") :> "error"
    @@ R("", "prefer-template") :> "error"))

typescriptEslintConfig ==
  Object(Config("typescriptEslintConfig", {"**/*.ts", "**/*.tsx"}, {}, {},
    "@typescript-eslint/parser",
    R("@typescript-eslint", "no-explicit-any") :> "error"
    @@ R("@typescript-eslint", "no-unused-vars") :> "error"))

perfectionistRecommendedAlphabetical ==
  Object(Config("perfectionist.configs.recommended-alphabetical", {}, {}, {}, "",
    R("perfectionist", "sort-imports") :> "error"
    @@ R("perfectionist", "sort-exports") :> "error"))

globalsBrowser == {"window", "document", "console"}
globalsNode == {"process", "Buffer", "console"}
globalsMocha == {"describe", "it", "before"}

\* Mutant: the Cypress fragment declares no browser globals.
cypressConfig_noBrowser ==
  Object(Config("cypressConfig",
    {"cypress/**/*.ts", "cypress/**/*.tsx", "**/*.test.tsx"}, {},
    {"assert", "chai", "cy", "Cypress", "expect"} \cup globalsMocha,
    "",
    R("cypress", "no-pause") :> "error"))

cypressConfig ==
  Object(Config("cypressConfig",
    {"cypress/**/*.ts", "cypress/**/*.tsx", "**/*.test.tsx"}, {},
    {"assert", "chai", "cy", "Cypress", "expect"} \cup globalsBrowser
      \cup globalsMocha,
    "",
    R("cypress", "assertion-before-screenshot") :> "warn"
    @@ R("cypress", "no-assigning-return-values") :> "error"
    @@ R("cypress", "no-async-tests") :> "error"
    @@ R("cypress", "no-force") :> "warn"
    @@ R("cypress", "no-pause") :> "error"
    @@ R("cypress", "no-unnecessary-waiting") :> "error"
    @@ R("promise", "always-return") :> "off"
    @@ R("promise", "catch-or-return") :> "off"
    @@ R("promise", "prefer-await-to-then") :> "off"))

a11yConfig ==
  Object(Config("a11yConfig", {"**/*.tsx", "**/*.jsx"}, {}, {}, "",
    R("jsx-a11y", "click-events-have-key-events") :> "error"
    @@ R("jsx-a11y", "alt-text") :> "error"))

vitestConfig ==
  Object(Config("vitestConfig", {"tests/**", "**/*.test.ts", "**/*.test.js"}, {},
    {"describe", "it", "expect", "vi"}, "",
    R("vitest", "expect-expect") :> "error"
    @@ R("vitest", "max-nested-describe") :> "error"))

filenameConfig ==
  Object(Config("filenameConfig", {"**/*.{js,jsx,ts,tsx}"}, {}, {}, "",
    R("check-file", "filename-naming-convention") :> "error"))

functionNameConfig ==
  Object(Config("functionNameConfig", {}, {}, {}, "",
    R("function-name", "starts-with-verb") :> "2"))

promiseConfig ==
  Object(Config("promiseConfig", {}, {}, {}, "",
    R("promise", "always-return") :> "error"
    @@ R("promise", "catch-or-return") :> "error"
    @@ R("promise", "prefer-await-to-then") :> "error"))

unicornConfig ==
  Object(Config("unicornConfig", {}, {}, {}, "",
    R("unicorn", "prefer-export-from") :> "error"))

canonicalConfig ==
  Object(Config("canonicalConfig", {}, {}, {}, "",
    R("canonical", "prefer-import-alias") :> "2"))

reactConfig ==
  Object(Config("reactConfig", {"**/*.tsx", "**/*.jsx"}, {}, {}, "",
    R("react", "button-has-type") :> "error"
    @@ R("react-hooks", "rules-of-hooks") :> "error"))

\* The `rules` object of configuration/import.js.
rules ==
  R("import", "default") :> "2"
  @@ R("import", "export") :> "2"
  @@ R("import", "exports-last") :> "2"
  @@ R("import", "extensions") :> "2"
  @@ R("import", "first") :> "2"
  @@ R("import", "group-exports") :> "0"
  @@ R("import", "named") :> "2"
  @@ R("import", "namespace") :> "2"
  @@ R("import", "newline-after-import") :> "2"
  @@ R("import", "no-absolute-path") :> "2"
  @@ R("import", "no-anonymous-default-export") :> "2"
  @@ R("import", "no-cycle") :> "2"
  @@ R("import", "no-default-export") :> "0"
  @@ R("import", "no-deprecated") :> "2"
  @@ R("import", "no-duplicates") :> "2"
  @@ R("import", "no-dynamic-require") :> "2"
  @@ R("import", "no-empty-named-blocks") :> "2"
  @@ R("import", "no-extraneous-dependencies") :> "2"
  @@ R("import", "no-internal-modules") :> "0"
  @@ R("import", "no-mutable-exports") :> "2"
  @@ R("import", "no-named-as-default") :> "2"
  @@ R("import", "no-named-export") :> "0"
  @@ R("import", "no-relative-packages") :> "2"
  @@ R("import", "no-relative-parent-imports") :> "0"
  @@ R("import", "no-self-import") :> "2"
  @@ R("import", "no-unresolved") :> "2"
  @@ R("import", "no-unused-modules") :> "2"
  @@ R("import", "no-useless-path-segments") :> "2"
  @@ R("import", "order") :> "0"
  @@ R("import", "prefer-default-export") :> "2"

\* Mutant: the JavaScript variant keeps the extensions check and also
\* covers .tsx files.
importEslintJavascriptConfig_keepsExtensions ==
  Object(Config("importEslintJavascriptConfig", JsFiles \cup {"**/*.tsx"}, {}, {},
    "", rules))

\* { ...rules, "import/extensions": 0 }: the later key wins.
importEslintJavascriptConfig ==
  Object(Config("importEslintJavascriptConfig", JsFiles, {}, {}, "",
    [r \in DOMAIN rules |-> IF r = R("import", "extensions") THEN "0" ELSE rules[r]]))

importEslintTypescriptConfig ==
  Object(Config("importEslintTypescriptConfig", TsFiles, {}, {}, "", rules))

pluginChaiFriendlyRecommendedFlat ==
  Object(Config("pluginChaiFriendly.configs.recommendedFlat", {}, {}, {}, "",
    R("", "no-unused-expressions") :> "off"
    @@ R("chai-friendly", "no-unused-expressions") :> "error"))

graphqlConfig ==
  Object(Config("graphqlConfig", {"**/*.graphql"}, {}, {}, "@graphql-eslint/parser",
    R("@graphql-eslint", "no-anonymous-operations") :> "error"))

\* [...storybook.configs["flat/recommended"], {ignores}, {files, rules}]
storybookConfig ==
  Array(<<
    Config("storybook:recommended:setup", {}, {}, {}, "", NoRules),
    Config("storybook:recommended:stories-rules",
      {"**/*.stories.@(js|jsx|ts|tsx)"}, {}, {}, "",
      R("storybook", "default-exports") :> "error"
      @@ R("storybook", "no-renderer-packages") :> "error"),
    Config("storybook:recommended:main-rules",
      {".storybook/main.@(js|cjs|mjs|ts)"}, {}, {}, "",
      R("storybook", "no-uninstalled-addons") :> "error"),
    Config("storybookConfig.ignores", {}, {".storybook", "storybook-static"},
      {}, "", NoRules),
    Config("storybookConfig.stories", {"**/*.stories.@(js|jsx|ts|tsx)"}, {},
      {}, "", R("storybook", "no-renderer-packages") :> "off")
  >>)

queryConfig ==
  Object(Config("queryConfig", {}, {}, {}, "",
    R("@tanstack/query", "exhaustive-deps") :> "error"))

routerConfig ==
  Object(Config("routerConfig", {}, {}, {}, "",
    R("@tanstack/router", "create-route-property-order") :> "warn"))

nodeGlobals ==
  Object(Config("nodeGlobals", {}, {}, globalsNode, "", NoRules))

browserGlobals ==
  Object(Config("browserGlobals", {}, {}, globalsBrowser, "", NoRules))

\* The module-level bindings eslint.config.js imports.
FragmentNames ==
  {"eslintConfig", "typescriptEslintConfig", "perfectionist", "cypressConfig",
   "a11yConfig", "vitestConfig", "filenameConfig", "functionNameConfig",
   "promiseConfig", "unicornConfig", "canonicalConfig", "reactConfig",
   "importEslintTypescriptConfig", "importEslintJavascriptConfig",
   "pluginChaiFriendly", "graphqlConfig", "storybookConfig", "queryConfig",
   "routerConfig", "nodeGlobals", "browserGlobals"}

FragmentLibrary ==
  [n \in FragmentNames |->
    CASE n = "eslintConfig" -> eslintConfig
      [] n = "typescriptEslintConfig" -> typescriptEslintConfig
      [] n = "perfectionist" -> perfectionistRecommendedAlphabetical
      [] n = "cypressConfig" -> cypressConfig
      [] n = "a11yConfig" -> a11yConfig
      [] n = "vitestConfig" -> vitestConfig
      [] n = "filenameConfig" -> filenameConfig
      [] n = "functionNameConfig" -> functionNameConfig
      [] n = "promiseConfig" -> promiseConfig
      [] n = "unicornConfig" -> unicornConfig
      [] n = "canonicalConfig" -> canonicalConfig
      [] n = "reactConfig" -> reactConfig
      [] n = "importEslintTypescriptConfig" -> importEslintTypescriptConfig
      [] n = "importEslintJavascriptConfig" -> importEslintJavascriptConfig
      [] n = "pluginChaiFriendly" -> pluginChaiFriendlyRecommendedFlat
      [] n = "graphqlConfig" -> graphqlConfig
      [] n = "storybookConfig" -> storybookConfig
      [] n = "queryConfig" -> queryConfig
      [] n = "routerConfig" -> routerConfig
      [] n = "nodeGlobals" -> nodeGlobals
      [] n = "browserGlobals" -> browserGlobals]

(***************************************************************************)
(* The composition engine (eslint.config.js).                              *)
(***************************************************************************)
\* A destructured parameter with a default: the default applies when the
\* key is absent from the options object.
Param(options, key, default) ==
  IF key \in DOMAIN options THEN options[key] ELSE default

\* The defaults in the parameter list of generateEslintConfigByFeatures.
FeatureDefaults ==
  [importCycleCheckMode |-> "off",
   shouldEnableA11y |-> FALSE,
   shouldEnableBrowserGlobals |-> FALSE,
   shouldEnableCypress |-> FALSE,
   shouldEnableGraphql |-> FALSE,
   shouldEnableNodeGlobals |-> FALSE,
   shouldEnableQuery |-> FALSE,
   shouldEnableReact |-> FALSE,
   shouldEnableRouter |-> FALSE,
   shouldEnableStorybook |-> FALSE,
   shouldEnableTypescript |-> TRUE,
   shouldEnableVitest |-> FALSE]

\* Mutant: shouldEnableReact defaults to true, as the JSDoc of the function says.
FeatureParams_reactDefaultTrue(options) ==
  [k \in DOMAIN FeatureDefaults |->
    Param(options, k, IF k = "shouldEnableReact" THEN TRUE ELSE FeatureDefaults[k])]

\* Mutant: shouldEnableTypescript defaults to false like every other flag.
FeatureParams_typescriptDefaultFalse(options) ==
  [k \in DOMAIN FeatureDefaults |->
    Param(options, k, IF k = "shouldEnableTypescript" THEN FALSE ELSE FeatureDefaults[k])]

\* The destructured parameters: the local variables of the function body.
FeatureParams(options) ==
  [k \in DOMAIN FeatureDefaults |-> Param(options, k, FeatureDefaults[k])]

\* Mutant: every optional fragment is included whatever its flag.
Optional_always(flag, fragment) == fragment

\* flag ? fragment : undefined
Optional(flag, fragment) == IF flag THEN fragment ELSE Undefined

\* Mutant: without TypeScript both import-hygiene variants are composed.
ImportHygiene_bothForJavascript(shouldEnableTypescript) ==
  IF shouldEnableTypescript
    THEN catalog["importEslintTypescriptConfig"]
    ELSE Array(catalog["importEslintJavascriptConfig"].items
                 \o catalog["importEslintTypescriptConfig"].items)

\* Mutant: the TypeScript variant is chosen whatever the flag.
ImportHygiene_typescriptOnly(shouldEnableTypescript) ==
  catalog["importEslintTypescriptConfig"]

\* shouldEnableTypescript ? importEslintTypescriptConfig : importEslintJavascriptConfig
ImportHygiene(shouldEnableTypescript) ==
  IF shouldEnableTypescript
    THEN catalog["importEslintTypescriptConfig"]
    ELSE catalog["importEslintJavascriptConfig"]

\* The object literal { rules: { "import/no-cycle": "off" } }.
cycleCheckOverride ==
  Object(Config("cycleCheckOverride", {}, {}, {}, "", R("import", "no-cycle") :> "off"))

\* Mutant: the documented value "ci" is a third state that also appends the
\* override.
CycleCheckOverrideSlot_ciToo(mode) ==
  IF mode \in {"off", "ci"} THEN cycleCheckOverride ELSE Undefined

\* Mutant: the test is inverted, as the JSDoc of EslintConfigOptions reads.
CycleCheckOverrideSlot_inverted(mode) ==
  IF mode = "on" THEN cycleCheckOverride ELSE Undefined

\* importCycleCheckMode === "off" ? { rules: {...} } : undefined
CycleCheckOverrideSlot(mode) ==
  IF mode = "off" THEN cycleCheckOverride ELSE Undefined

\* The array literal of generateEslintConfigByFeatures, before filter and flat.
ConfigArray(p) ==
  << catalog["eslintConfig"],
     Optional(p.shouldEnableTypescript, catalog["typescriptEslintConfig"]),
     catalog["perfectionist"],
     Optional(p.shouldEnableCypress, catalog["cypressConfig"]),
     Optional(p.shouldEnableA11y, catalog["a11yConfig"]),
     Optional(p.shouldEnableVitest, catalog["vitestConfig"]),
     catalog["filenameConfig"],
     catalog["functionNameConfig"],
     catalog["promiseConfig"],
     catalog["unicornConfig"],
     catalog["canonicalConfig"],
     Optional(p.shouldEnableReact, catalog["reactConfig"]),
     ImportHygiene(p.shouldEnableTypescript),
     catalog["pluginChaiFriendly"],
     Optional(p.shouldEnableGraphql, catalog["graphqlConfig"]),
     Optional(p.shouldEnableStorybook, catalog["storybookConfig"]),
     Optional(p.shouldEnableQuery, catalog["queryConfig"]),
     Optional(p.shouldEnableRouter, catalog["routerConfig"]),
     Optional(p.shouldEnableNodeGlobals, catalog["nodeGlobals"]),
     Optional(p.shouldEnableBrowserGlobals, catalog["browserGlobals"]),
     CycleCheckOverrideSlot(p.importCycleCheckMode) >>

\* Mutant: the filter keeps the undefined elements instead of dropping them.
FilterUndefined_inverted(array) == SelectSeq(array, LAMBDA c : c.type = "undefined")

\* .filter((c) => c !== undefined)
FilterUndefined(array) == SelectSeq(array, LAMBDA c : c.type # "undefined")

\* .flat(): an element that is an array is replaced by its elements.
RECURSIVE Flat(_)
Flat(array) ==
  IF array = <<>> THEN <<>> ELSE Head(array).items \o Flat(Tail(array))

\* Mutant: the TypeScript fragment is composed whatever shouldEnableTypescript.
generateEslintConfigByFeatures_typescriptAlways(options) ==
  LET a == ConfigArray(FeatureParams(options))
  IN Flat(FilterUndefined(
       <<a[1], catalog["typescriptEslintConfig"]>> \o SubSeq(a, 3, Len(a))))

\* Mutant: the chai-friendly fragment is gated by the Cypress flag.
generateEslintConfigByFeatures_chaiByCypress(options) ==
  LET p == FeatureParams(options)
      a == ConfigArray(p)
  IN Flat(FilterUndefined(
       [i \in DOMAIN a |->
          IF a[i] = catalog["pluginChaiFriendly"]
            THEN Optional(p.shouldEnableCypress, a[i])
            ELSE a[i]]))

\* Mutant: the Storybook directories are ignored whatever the Storybook flag.
generateEslintConfigByFeatures_ignoresAlways(options) ==
  Flat(FilterUndefined(
    <<Object(catalog["storybookConfig"].items[4])>>
      \o ConfigArray(FeatureParams(options))))

\* Mutant: the override is prepended instead of appended.
generateEslintConfigByFeatures_overrideFirst(options) ==
  LET a == ConfigArray(FeatureParams(options))
  IN Flat(FilterUndefined(<<a[Len(a)]>> \o SubSeq(a, 1, Len(a) - 1)))

\* Mutant: the accessibility fragment is gated by the React flag.
generateEslintConfigByFeatures_a11yByReact(options) ==
  LET p == FeatureParams(options)
  IN Flat(FilterUndefined(ConfigArray(
       [p EXCEPT !["shouldEnableA11y"] = p["shouldEnableReact"]])))

\* Mutant: the sorting fragment is placed before the TypeScript fragment.
generateEslintConfigByFeatures_sortingFirst(options) ==
  LET a == ConfigArray(FeatureParams(options))
  IN Flat(FilterUndefined(<<a[1], a[3], a[2]>> \o SubSeq(a, 4, Len(a))))

generateEslintConfigByFeatures(options) ==
  Flat(FilterUndefined(ConfigArray(FeatureParams(options))))

\* What a call produces: a returned array or a thrown Error.
Returned(value) == [status |-> "returned", value |-> value, message |-> <<>>]
Threw(message) == [status |-> "threw", value |-> <<>>, message |-> message]

\* Mutant: the backendOnly case enables React and accessibility.
backendOnlyFlags_react(importCycleCheckMode, shouldEnableTypescript) ==
  [importCycleCheckMode |-> importCycleCheckMode,
   shouldEnableA11y |-> TRUE,
   shouldEnableBrowserGlobals |-> FALSE,
   shouldEnableCypress |-> FALSE,
   shouldEnableGraphql |-> FALSE,
   shouldEnableNodeGlobals |-> TRUE,
   shouldEnableQuery |-> FALSE,
   shouldEnableReact |-> TRUE,
   shouldEnableRouter |-> FALSE,
   shouldEnableStorybook |-> FALSE,
   shouldEnableTypescript |-> shouldEnableTypescript,
   shouldEnableVitest |-> TRUE]

\* Mutant: the backendOnly case enables the browser globals and not Vitest.
backendOnlyFlags_browser(importCycleCheckMode, shouldEnableTypescript) ==
  [importCycleCheckMode |-> importCycleCheckMode,
   shouldEnableA11y |-> FALSE,
   shouldEnableBrowserGlobals |-> TRUE,
   shouldEnableCypress |-> FALSE,
   shouldEnableGraphql |-> FALSE,
   shouldEnableNodeGlobals |-> TRUE,
   shouldEnableQuery |-> FALSE,
   shouldEnableReact |-> FALSE,
   shouldEnableRouter |-> FALSE,
   shouldEnableStorybook |-> FALSE,
   shouldEnableTypescript |-> shouldEnableTypescript,
   shouldEnableVitest |-> FALSE]

\* The flag objects the two cases of generateEslintConfig pass on.
backendOnlyFlags(importCycleCheckMode, shouldEnableTypescript) ==
  [importCycleCheckMode |-> importCycleCheckMode,
   shouldEnableA11y |-> FALSE,
   shouldEnableBrowserGlobals |-> FALSE,
   shouldEnableCypress |-> FALSE,
   shouldEnableGraphql |-> FALSE,
   shouldEnableNodeGlobals |-> TRUE,
   shouldEnableQuery |-> FALSE,
   shouldEnableReact |-> FALSE,
   shouldEnableRouter |-> FALSE,
   shouldEnableStorybook |-> FALSE,
   shouldEnableTypescript |-> shouldEnableTypescript,
   shouldEnableVitest |-> TRUE]

\* Mutant: the fullstack case enables GraphQL.
fullstackFlags_graphql(importCycleCheckMode, shouldEnableTypescript) ==
  [importCycleCheckMode |-> importCycleCheckMode,
   shouldEnableA11y |-> TRUE,
   shouldEnableBrowserGlobals |-> TRUE,
   shouldEnableCypress |-> TRUE,
   shouldEnableGraphql |-> TRUE,
   shouldEnableNodeGlobals |-> TRUE,
   shouldEnableQuery |-> TRUE,
   shouldEnableReact |-> TRUE,
   shouldEnableRouter |-> TRUE,
   shouldEnableStorybook |-> TRUE,
   shouldEnableTypescript |-> shouldEnableTypescript,
   shouldEnableVitest |-> TRUE]

fullstackFlags(importCycleCheckMode, shouldEnableTypescript) ==
  [importCycleCheckMode |-> importCycleCheckMode,
   shouldEnableA11y |-> TRUE,
   shouldEnableBrowserGlobals |-> TRUE,
   shouldEnableCypress |-> TRUE,
   shouldEnableGraphql |-> FALSE,
   shouldEnableNodeGlobals |-> TRUE,
   shouldEnableQuery |-> TRUE,
   shouldEnableReact |-> TRUE,
   shouldEnableRouter |-> TRUE,
   shouldEnableStorybook |-> TRUE,
   shouldEnableTypescript |-> shouldEnableTypescript,
   shouldEnableVitest |-> TRUE]

\* Mutant: every capability flag supplied alongside appType replaces the
\* preset's value.
generateEslintConfig_honoursOverrides(options) ==
  LET appType == Param(options, "appType", "fullstack")
      importCycleCheckMode == Param(options, "importCycleCheckMode", "off")
      shouldEnableTypescript == Param(options, "shouldEnableTypescript", TRUE)
      Merged(flags) == [k \in DOMAIN flags |-> Param(options, k, flags[k])]
  IN CASE appType = "backendOnly" ->
            Returned(generateEslintConfigByFeatures(Merged(
              backendOnlyFlags(importCycleCheckMode, shouldEnableTypescript))))
       [] appType = "fullstack" ->
            Returned(generateEslintConfigByFeatures(Merged(
              fullstackFlags(importCycleCheckMode, shouldEnableTypescript))))
       [] OTHER -> Threw(<<"Invalid app type: ", appType>>)

\* Mutant: the mode passed to the preset entry point is not handed on.
generateEslintConfig_modeDropped(options) ==
  LET appType == Param(options, "appType", "fullstack")
      shouldEnableTypescript == Param(options, "shouldEnableTypescript", TRUE)
  IN CASE appType = "backendOnly" ->
            Returned(generateEslintConfigByFeatures(
              backendOnlyFlags("off", shouldEnableTypescript)))
       [] appType = "fullstack" ->
            Returned(generateEslintConfigByFeatures(
              fullstackFlags("off", shouldEnableTypescript)))
       [] OTHER -> Threw(<<"Invalid app type: ", appType>>)

\* Mutant: an unrecognized appType falls back to the fullstack preset.
generateEslintConfig_fallback(options) ==
  LET appType == Param(options, "appType", "fullstack")
      importCycleCheckMode == Param(options, "importCycleCheckMode", "off")
      shouldEnableTypescript == Param(options, "shouldEnableTypescript", TRUE)
  IN IF appType = "backendOnly"
       THEN Returned(generateEslintConfigByFeatures(
              backendOnlyFlags(importCycleCheckMode, shouldEnableTypescript)))
       ELSE Returned(generateEslintConfigByFeatures(
              fullstackFlags(importCycleCheckMode, shouldEnableTypescript)))

generateEslintConfig(options) ==
  LET appType == Param(options, "appType", "fullstack")
      importCycleCheckMode == Param(options, "importCycleCheckMode", "off")
      shouldEnableTypescript == Param(options, "shouldEnableTypescript", TRUE)
  IN CASE appType = "backendOnly" ->
            Returned(generateEslintConfigByFeatures(
              backendOnlyFlags(importCycleCheckMode, shouldEnableTypescript)))
       [] appType = "fullstack" ->
            Returned(generateEslintConfigByFeatures(
              fullstackFlags(importCycleCheckMode, shouldEnableTypescript)))
       [] OTHER -> Threw(<<"Invalid app type: ", appType>>)

\* process.env.CI ? "on" : "off" -- unset (undefined) and "" are falsy.
EnvUnset == "undefined"
EnvValues == {EnvUnset, "", "true"}

\* Mutant: an empty CI counts as set (a test against undefined, not truthiness).
importCycleCheckMode_definedIsSet == IF env # EnvUnset THEN "on" ELSE "off"

importCycleCheckMode == IF env \notin {EnvUnset, ""} THEN "on" ELSE "off"

\* Mutant: the default export is computed with the cycle check on.
LoadBaseConfig_modeOn ==
  generateEslintConfig(
    [appType |-> "fullstack",
     importCycleCheckMode |-> "on",
     shouldEnableTypescript |-> TRUE])

\* Mutant: the default export is computed with TypeScript disabled.
LoadBaseConfig_typescriptOff ==
  generateEslintConfig(
    [appType |-> "fullstack",
     importCycleCheckMode |-> importCycleCheckMode,
     shouldEnableTypescript |-> FALSE])

\* const baseConfig = generateEslintConfig({appType: "fullstack", ...})
LoadBaseConfig ==
  generateEslintConfig(
    [appType |-> "fullstack",
     importCycleCheckMode |-> importCycleCheckMode,
     shouldEnableTypescript |-> TRUE])

\* Mutant: the tailwind plugin is pushed whatever the appType.
generatePrettierConfig_tailwindAlways(options) ==
  [arrowParens |-> "always",
   bracketSpacing |-> TRUE,
   embeddedLanguageFormatting |-> "auto",
   endOfLine |-> "lf",
   htmlWhitespaceSensitivity |-> "css",
   objectWrap |-> "collapse",
   plugins |-> <<"prettier-plugin-packagejson", "prettier-plugin-tailwindcss">>,
   printWidth |-> 80,
   quoteProps |-> "as-needed",
   semi |-> TRUE,
   singleQuote |-> FALSE,
   tabWidth |-> 2,
   trailingComma |-> "all",
   useTabs |-> FALSE]

\* prettier.config.js: the plugin list is the only conditional part.
generatePrettierConfig(options) ==
  LET appType == Param(options, "appType", "fullstack")
      plugins == <<"prettier-plugin-packagejson">>
                   \o IF appType = "fullstack"
                        THEN <<"prettier-plugin-tailwindcss">>
                        ELSE <<>>
  IN [arrowParens |-> "always",
      bracketSpacing |-> TRUE,
      embeddedLanguageFormatting |-> "auto",
      endOfLine |-> "lf",
      htmlWhitespaceSensitivity |-> "css",
      objectWrap |-> "collapse",
      plugins |-> plugins,
      printWidth |-> 80,
      quoteProps |-> "as-needed",
      semi |-> TRUE,
      singleQuote |-> FALSE,
      tabWidth |-> 2,
      trailingComma |-> "all",
      useTabs |-> FALSE]

\* const config = generatePrettierConfig({ appType: "fullstack" })
LoadPrettierConfig == generatePrettierConfig([appType |-> "fullstack"])

(***************************************************************************)
(* Inputs: the options objects a caller passes.                            *)
(***************************************************************************)
FlagNames ==
  {"shouldEnableA11y", "shouldEnableBrowserGlobals", "shouldEnableCypress",
   "shouldEnableGraphql", "shouldEnableNodeGlobals", "shouldEnableQuery",
   "shouldEnableReact", "shouldEnableRouter", "shouldEnableStorybook",
   "shouldEnableTypescript", "shouldEnableVitest"}

ModeValues == {"on", "off", "ci"}
AppTypeValues == {"fullstack", "backendOnly", "staging"}

\* Flag objects that supply at most max of the capability flags.
FlagObjects(max) ==
  UNION {[S -> BOOLEAN] : S \in {T \in SUBSET FlagNames : Cardinality(T) <= max}}

\* o, and o with key set to each of values.
WithKey(objects, key, values) ==
  objects \cup {(key :> v) @@ o : o \in objects, v \in values}

FeatureOptions ==
  WithKey(FlagObjects(MaxSupplied) \cup [FlagNames -> BOOLEAN],
          "importCycleCheckMode", ModeValues)

PresetOptions ==
  WithKey(WithKey(FlagObjects(MaxOverrides), "importCycleCheckMode", ModeValues),
          "appType", AppTypeValues)

Calls ==
  [fn : {"generateEslintConfigByFeatures"}, options : FeatureOptions]
  \cup [fn : {"generateEslintConfig"}, options : PresetOptions]

\* The flag objects that supply no flag or one.
SingleFlagObjects == {<<>>} \cup {k :> b : k \in FlagNames, b \in BOOLEAN}

\* generatePrettierConfig reads appType and nothing else of its argument.
PrettierOptions == WithKey(SingleFlagObjects, "appType", AppTypeValues)

\* The calls of several callers that share the loaded module.
CallerCalls ==
  [fn : {"generateEslintConfigByFeatures"},
   options : {<<>>, [shouldEnableStorybook |-> TRUE],
              [shouldEnableTypescript |-> FALSE],
              [importCycleCheckMode |-> "on", shouldEnableReact |-> TRUE],
              [k \in FlagNames |-> TRUE]}]
  \cup [fn : {"generateEslintConfig"},
        options : {<<>>, [appType |-> "backendOnly"], [appType |-> "staging"],
                   [appType |-> "fullstack", importCycleCheckMode |-> "on"]}]
  \cup [fn : {"generatePrettierConfig"},
        options : {<<>>, [appType |-> "backendOnly"]}]

\* The calls of a caller that uses the preset and the formatter entry points,
\* or the composition with a small flag object.
EnvCalls ==
  [fn : {"generateEslintConfig"},
   options : WithKey(WithKey(SingleFlagObjects, "importCycleCheckMode", ModeValues),
                     "appType", AppTypeValues)]
  \cup [fn : {"generatePrettierConfig"}, options : PrettierOptions]
  \cup [fn : {"generateEslintConfigByFeatures"},
        options : WithKey(SingleFlagObjects, "importCycleCheckMode", ModeValues)]

(***************************************************************************)
(* The state machine: the module is loaded (Init), then a caller invokes   *)
(* its function on its options object, and the environment may change.     *)
(***************************************************************************)
\* Mutant: a call that composes the Storybook fragment takes the first
\* element off the imported array (shift) instead of copying it.
CatalogAfterCall_shift(options) ==
  IF Param(options, "shouldEnableStorybook", FALSE)
       /\ catalog["storybookConfig"].items # <<>>
    THEN [catalog EXCEPT !["storybookConfig"] = Array(Tail(@.items))]
    ELSE catalog

\* Mutant: the cycle check is switched off in the imported import-hygiene
\* fragment itself instead of by an appended object.
CatalogAfterCall_disableInPlace(options) ==
  IF Param(options, "importCycleCheckMode", "off") = "off"
    THEN [catalog EXCEPT !["importEslintTypescriptConfig"] =
            Object([@.items[1] EXCEPT !.rules =
                      (R("import", "no-cycle") :> "off") @@ @])]
    ELSE catalog

\* Mutant: the override is pushed onto the imported Storybook array.
CatalogAfterCall_push(options) ==
  IF Param(options, "shouldEnableStorybook", FALSE)
    THEN [catalog EXCEPT !["storybookConfig"] =
            Array(@.items \o cycleCheckOverride.items)]
    ELSE catalog

\* The module bindings after a call: the function body reads the imported
\* fragments and builds a new array; it assigns to none of them.
CatalogAfterCall(options) == catalog

\* The environments and the calls a specification starts from.
InitAt(environments, calls) ==
  /\ env \in environments
  /\ catalog = FragmentLibrary
  /\ baseConfig = LoadBaseConfig
  /\ ubaPrettierConfig = LoadPrettierConfig
  /\ call \in calls
  /\ made = <<>>
  /\ history = <<>>

CallByFeatures ==
  /\ call.fn = "generateEslintConfigByFeatures"
  /\ Len(history) < MaxCalls
  /\ made' = Append(made, call)
  /\ history' = Append(history, Returned(generateEslintConfigByFeatures(call.options)))
  /\ catalog' = CatalogAfterCall(call.options)
  /\ UNCHANGED <<env, baseConfig, ubaPrettierConfig, call>>

CallByAppType ==
  /\ call.fn = "generateEslintConfig"
  /\ Len(history) < MaxCalls
  /\ made' = Append(made, call)
  /\ history' = Append(history, generateEslintConfig(call.options))
  /\ catalog' = catalog
  /\ UNCHANGED <<env, baseConfig, ubaPrettierConfig, call>>

CallPrettier ==
  /\ call.fn = "generatePrettierConfig"
  /\ Len(history) < MaxCalls
  /\ made' = Append(made, call)
  /\ history' = Append(history, Returned(generatePrettierConfig(call.options)))
  /\ UNCHANGED <<env, catalog, baseConfig, ubaPrettierConfig, call>>

\* process.env.CI is changed after the module was loaded.
SetEnv ==
  /\ \E v \in EnvValues \ {env} : env' = v
  /\ UNCHANGED <<catalog, baseConfig, ubaPrettierConfig, call, made, history>>

\* Spec: the module is loaded on a machine where CI is unset; a caller then
\* invokes its function on its options object, up to MaxCalls times.
Init == InitAt({EnvUnset}, Calls)

Next == CallByFeatures \/ CallByAppType

Spec == Init /\ [][Next]_vars

\* SpecEnv: the module is loaded under any value of CI, which may change
\* afterwards; the callers use the preset entry point, the formatter entry
\* point or the composition with a small flag object.
InitEnv == InitAt(EnvValues, EnvCalls)

NextEnv == CallByAppType \/ CallByFeatures \/ CallPrettier \/ SetEnv

SpecEnv == InitEnv /\ [][NextEnv]_vars

\* Another caller takes its turn with its own call.
NextCaller ==
  /\ Len(history) < MaxCalls
  /\ \E c \in CallerCalls \ {call} : call' = c
  /\ UNCHANGED <<env, catalog, baseConfig, ubaPrettierConfig, made, history>>

\* SpecCallers: several callers share the loaded module and call its
\* functions in any order, each with its own options object.
InitCallers == InitAt({EnvUnset}, CallerCalls)

NextCallers == CallByFeatures \/ CallByAppType \/ CallPrettier \/ NextCaller

SpecCallers == InitCallers /\ [][NextCallers]_vars

(***************************************************************************)
(* The rule engine's reading of a configuration array (ESLint flat config): *)
(* an object with no `files` applies to every linted file, an object with   *)
(* `files` to the files one of its globs matches, an object with only       *)
(* `ignores` excludes files from linting, and for one rule the last         *)
(* applicable object that assigns it decides.                               *)
(***************************************************************************)
\* A file path: its directories and the dot-separated parts of its file name.
Path(dir, base) == [dir |-> dir, base |-> base]

Files ==
  { Path(<<>>, <<"test", "js">>),
    Path(<<>>, <<"test", "jsx">>),
    Path(<<"src">>, <<"app", "ts">>),
    Path(<<"src">>, <<"App", "tsx">>),
    Path(<<"src">>, <<"util", "mjs">>),
    Path(<<"src">>, <<"util", "cts">>),
    Path(<<"src">>, <<"sum", "test", "ts">>),
    Path(<<"src">>, <<"App", "test", "tsx">>),
    Path(<<"src">>, <<"Button", "stories", "tsx">>),
    Path(<<"cypress", "e2e">>, <<"login", "ts">>),
    Path(<<"tests">>, <<"helper", "js">>),
    Path(<<".storybook">>, <<"main", "ts">>),
    Path(<<"src">>, <<"schema", "graphql">>),
    Path(<<>>, <<"README", "md">>) }

\* The parsed form of the glob strings the fragments use: the directory the
\* glob starts in, whether it descends ("**"), the stem of the file name ("*"
\* or a literal) and the file-name endings it accepts.
Glob(pattern) ==
  LET any(dir, ends) == [dir |-> dir, deep |-> TRUE, stem |-> "*", ends |-> ends]
  IN CASE pattern = "**/*.ts" -> any(<<>>, {<<"ts">>})
       [] pattern = "**/*.tsx" -> any(<<>>, {<<"tsx">>})
       [] pattern = "**/*.mts" -> any(<<>>, {<<"mts">>})
       [] pattern = "**/*.cts" -> any(<<>>, {<<"cts">>})
       [] pattern = "**/*.js" -> any(<<>>, {<<"js">>})
       [] pattern = "**/*.jsx" -> any(<<>>, {<<"jsx">>})
       [] pattern = "**/*.mjs" -> any(<<>>, {<<"mjs">>})
       [] pattern = "**/*.cjs" -> any(<<>>, {<<"cjs">>})
       [] pattern = "**/*.graphql" -> any(<<>>, {<<"graphql">>})
       [] pattern = "**/*.{js,jsx,ts,tsx}" ->
            any(<<>>, {<<"js">>, <<"jsx">>, <<"ts">>, <<"tsx">>})
       [] pattern = "**/*.test.ts" -> any(<<>>, {<<"test", "ts">>})
       [] pattern = "**/*.test.js" -> any(<<>>, {<<"test", "js">>})
       [] pattern = "**/*.test.tsx" -> any(<<>>, {<<"test", "tsx">>})
       [] pattern = "cypress/**/*.ts" -> any(<<"cypress">>, {<<"ts">>})
       [] pattern = "cypress/**/*.tsx" -> any(<<"cypress">>, {<<"tsx">>})
       [] pattern = "tests/**" -> any(<<"tests">>, {<<>>})
       [] pattern = "**/*.stories.@(js|jsx|ts|tsx)" ->
            any(<<>>, {<<"stories", "js">>, <<"stories", "jsx">>,
                       <<"stories", "ts">>, <<"stories", "tsx">>})
       [] pattern = ".storybook/main.@(js|cjs|mjs|ts)" ->
            [dir |-> <<".storybook">>, deep |-> FALSE, stem |-> "main",
             ends |-> {<<"js">>, <<"cjs">>, <<"mjs">>, <<"ts">>}]

IsPrefix(s, t) == Len(s) <= Len(t) /\ SubSeq(t, 1, Len(s)) = s
IsSuffix(s, t) == Len(s) <= Len(t) /\ SubSeq(t, Len(t) - Len(s) + 1, Len(t)) = s

Matches(file, pattern) ==
  LET g == Glob(pattern)
  IN /\ IF g.deep THEN IsPrefix(g.dir, file.dir) ELSE file.dir = g.dir
     /\ \E e \in g.ends :
          IF g.stem = "*"
            THEN IsSuffix(e, file.base) /\ Len(file.base) > Len(e)
            ELSE file.base = <<g.stem>> \o e

\* A directory named in `ignores` excludes everything below it.
IgnoredBy(file, pattern) == file.dir # <<>> /\ file.dir[1] = pattern

\* An object that has `ignores` and nothing else ignores globally.
GloballyIgnored(config, file) ==
  \E i \in DOMAIN config :
    /\ config[i].files = {} /\ config[i].rules = NoRules
    /\ \E pattern \in config[i].ignores : IgnoredBy(file, pattern)

Applies(entry, file) ==
  /\ entry.files = {} \/ \E pattern \in entry.files : Matches(file, pattern)
  /\ ~ \E pattern \in entry.ignores : IgnoredBy(file, pattern)

\* Files no `files` glob matches are not linted; *.js, *.mjs and *.cjs are
\* matched by the engine's own defaults.
Linted(config, file) ==
  /\ ~ GloballyIgnored(config, file)
  /\ \/ \E pattern \in {"**/*.js", "**/*.mjs", "**/*.cjs"} : Matches(file, pattern)
     \/ \E i \in DOMAIN config :
          \E pattern \in config[i].files : Matches(file, pattern)

\* 0, 1, 2 are the numeric spellings of "off", "warn", "error".
Severity(value) ==
  CASE value \in {"0", "off"} -> "off"
    [] value \in {"1", "warn"} -> "warn"
    [] value \in {"2", "error"} -> "error"

\* The entries of config that apply to file and assign rule.
Assigning(config, file, rule) ==
  { i \in DOMAIN config :
      rule \in DOMAIN config[i].rules /\ Applies(config[i], file) }

Max(S) == CHOOSE x \in S : \A y \in S : y <= x

\* The severity the engine ends with for rule on file: the last assignment,
\* and "off" where nothing assigns the rule or the file is not linted.
EffectiveSeverity(config, file, rule) ==
  LET assigning == Assigning(config, file, rule)
  IN IF assigning = {} \/ ~ Linted(config, file)
       THEN "off"
       ELSE Severity(config[Max(assigning)].rules[rule])

\* The globals the engine ends with for file: languageOptions.globals of the
\* applicable objects are merged, a later object adding to the earlier ones.
EffectiveGlobals(config, file) ==
  UNION {config[i].globals :
           i \in {j \in DOMAIN config :
                    config[j].globals # {} /\ Applies(config[j], file)}}

\* The parser the engine ends with for file: languageOptions.parser of the
\* last applicable object that selects one, and the engine's own JavaScript
\* parser (espree) where none does.
DefaultParser == "espree"

EffectiveParser(config, file) ==
  LET selecting == {i \in DOMAIN config :
                      config[i].parser # "" /\ Applies(config[i], file)}
  IN IF selecting = {} THEN DefaultParser ELSE config[Max(selecting)].parser

\* The rules of the configuration the engine computes for file: the rules
\* some applicable object assigns.
EffectiveRules(config, file) ==
  UNION {DOMAIN config[i].rules :
           i \in {j \in DOMAIN config :
                    config[j].rules # NoRules /\ Applies(config[j], file)}}

(***************************************************************************)
(* Vocabulary of the properties.                                           *)
(***************************************************************************)
ByFeatures == call.fn = "generateEslintConfigByFeatures"
ByAppType == call.fn = "generateEslintConfig"
Supplied(key) == key \in DOMAIN call.options

\* The arrays the calls made so far returned.
ReturnedValues ==
  {history[i].value : i \in {j \in DOMAIN history : history[j].status = "returned"}}

EntryNames(config) == {config[i].name : i \in DOMAIN config}

StorybookEntries ==
  {"storybook:recommended:setup", "storybook:recommended:stories-rules",
   "storybook:recommended:main-rules", "storybookConfig.ignores",
   "storybookConfig.stories"}

ImportHygieneEntries ==
  {"importEslintTypescriptConfig", "importEslintJavascriptConfig"}

\* The entries each capability flag stands for.
FlagEntries(flag) ==
  CASE flag = "shouldEnableTypescript" -> {"typescriptEslintConfig"}
    [] flag = "shouldEnableCypress" -> {"cypressConfig"}
    [] flag = "shouldEnableA11y" -> {"a11yConfig"}
    [] flag = "shouldEnableVitest" -> {"vitestConfig"}
    [] flag = "shouldEnableReact" -> {"reactConfig"}
    [] flag = "shouldEnableGraphql" -> {"graphqlConfig"}
    [] flag = "shouldEnableStorybook" -> StorybookEntries
    [] flag = "shouldEnableQuery" -> {"queryConfig"}
    [] flag = "shouldEnableRouter" -> {"routerConfig"}
    [] flag = "shouldEnableNodeGlobals" -> {"nodeGlobals"}
    [] flag = "shouldEnableBrowserGlobals" -> {"browserGlobals"}

\* The precedence order: baseline, TypeScript, sorting, Cypress, accessibility,
\* Vitest, filename, function-name, promise, unicorn, import-alias, React,
\* import-hygiene variant, chai-friendly, GraphQL, Storybook, query, router,
\* node globals, browser globals, cycle-check override.
PrecedenceOrder ==
  << {"eslintConfig"}, {"typescriptEslintConfig"},
     {"perfectionist.configs.recommended-alphabetical"}, {"cypressConfig"},
     {"a11yConfig"}, {"vitestConfig"}, {"filenameConfig"},
     {"functionNameConfig"}, {"promiseConfig"}, {"unicornConfig"},
     {"canonicalConfig"}, {"reactConfig"}, ImportHygieneEntries,
     {"pluginChaiFriendly.configs.recommendedFlat"}, {"graphqlConfig"},
     StorybookEntries, {"queryConfig"}, {"routerConfig"}, {"nodeGlobals"},
     {"browserGlobals"}, {"cycleCheckOverride"} >>

Ranked(name) == \E k \in DOMAIN PrecedenceOrder : name \in PrecedenceOrder[k]
Rank(name) == CHOOSE k \in DOMAIN PrecedenceOrder : name \in PrecedenceOrder[k]

AllFlagsTrue == \A k \in FlagNames : Supplied(k) /\ call.options[k]

(***************************************************************************)
(* C1: generateEslintConfigByFeatures is deterministic: the calls a caller  *)
(* makes with one and the same flag object, at any times and whatever the  *)
(* environment has become in between, return identical sequences (the same *)
(* entries in the same order, hence the same length).                      *)
(***************************************************************************)
C1_Deterministic ==
  ByFeatures => \A i, j \in DOMAIN history : history[i] = history[j]

C1_Witness ==
  /\ ByFeatures /\ Len(history) >= 2
  /\ history[1].status = "returned" /\ history[2].status = "returned"
  /\ Len(history[1].value) > 0

(***************************************************************************)
(* C2: in every composed sequence the entries appear in the fixed          *)
(* precedence order: of two entries the earlier one never belongs to a     *)
(* later fragment of PrecedenceOrder, and only the entries of the Storybook *)
(* array share a position. In particular the sorting fragment comes after  *)
(* the baseline and the TypeScript fragment.                               *)
(***************************************************************************)
C2_FixedOrder ==
  ByFeatures =>
    \A v \in ReturnedValues :
      /\ \A i \in DOMAIN v : Ranked(v[i].name)
      /\ LET rank == [i \in DOMAIN v |-> Rank(v[i].name)]
         IN /\ \A i \in 1..(Len(v) - 1) :
                 /\ rank[i] <= rank[i + 1]
                 /\ rank[i] = rank[i + 1]
                      => {v[i].name, v[i + 1].name} \subseteq StorybookEntries
            /\ \A j \in DOMAIN v :
                 rank[j] = 3 => \A i \in DOMAIN v : rank[i] \in {1, 2} => i < j

C2_Witness ==
  /\ ByFeatures /\ AllFlagsTrue /\ ~ Supplied("importCycleCheckMode")
  /\ \E v \in ReturnedValues :
       /\ "typescriptEslintConfig" \in EntryNames(v)
       /\ "cycleCheckOverride" \in EntryNames(v)
       /\ Len(v) = 25

(***************************************************************************)
(* C3: an optional fragment is in the composed sequence if and only if its *)
(* flag is true: for every capability flag the caller supplies, the        *)
(* entries of its fragment are all present when it is true and all absent  *)
(* when it is false. With shouldEnableVitest false no entry assigns a      *)
(* vitest/ rule; with true the Vitest fragment, which assigns them, is     *)
(* present.                                                                *)
(***************************************************************************)
AssignsPlugin(entry, plugin) == \E r \in DOMAIN entry.rules : r[1] = plugin

C3_PresentIffFlag ==
  ByFeatures =>
    \A v \in ReturnedValues :
      /\ \A k \in FlagNames :
           Supplied(k) =>
             IF call.options[k]
               THEN FlagEntries(k) \subseteq EntryNames(v)
               ELSE FlagEntries(k) \cap EntryNames(v) = {}
      /\ Supplied("shouldEnableVitest") =>
           (call.options["shouldEnableVitest"]
              <=> \E i \in DOMAIN v : AssignsPlugin(v[i], "vitest"))

C3_Witness ==
  /\ ByFeatures /\ ReturnedValues # {}
  /\ \A k \in FlagNames : Supplied(k)
  /\ ~ call.options["shouldEnableVitest"]
  /\ call.options["shouldEnableReact"]
  /\ call.options["shouldEnableStorybook"]
  /\ ~ call.options["shouldEnableCypress"]

(***************************************************************************)
(* C4: every composed sequence contains exactly one import-hygiene entry:  *)
(* the TypeScript variant when shouldEnableTypescript is true, the         *)
(* JavaScript variant when it is false; never both, never neither.         *)
(***************************************************************************)
C4_OneImportHygiene ==
  ByFeatures =>
    \A v \in ReturnedValues :
      /\ Cardinality({i \in DOMAIN v : v[i].name \in ImportHygieneEntries}) = 1
      /\ Supplied("shouldEnableTypescript") =>
           IF call.options["shouldEnableTypescript"]
             THEN "importEslintTypescriptConfig" \in EntryNames(v)
             ELSE "importEslintJavascriptConfig" \in EntryNames(v)

C4_Witness ==
  /\ ByFeatures /\ Supplied("shouldEnableTypescript")
  /\ ~ call.options["shouldEnableTypescript"]
  /\ \E v \in ReturnedValues : "importEslintJavascriptConfig" \in EntryNames(v)

(***************************************************************************)
(* C5: the cycle-check override (one rule, import/no-cycle off, no file    *)
(* scope) is in the sequence when importCycleCheckMode is "off" and then   *)
(* it is the last element, whatever the other flags; with "on" (or any     *)
(* other supplied value) no override is appended.                          *)
(***************************************************************************)
IsOverride(entry) ==
  /\ entry.files = {} /\ entry.ignores = {} /\ entry.globals = {}
  /\ DOMAIN entry.rules = {R("import", "no-cycle")}
  /\ entry.rules[R("import", "no-cycle")] = "off"

C5_OverrideLast ==
  ByFeatures =>
    \A v \in ReturnedValues :
      /\ \A i \in DOMAIN v : IsOverride(v[i]) => i = Len(v)
      /\ Supplied("importCycleCheckMode") =>
           (call.options["importCycleCheckMode"] = "off"
              <=> (v # <<>> /\ IsOverride(v[Len(v)])))

C5_Witness ==
  /\ ByFeatures /\ Supplied("importCycleCheckMode")
  /\ call.options["importCycleCheckMode"] = "off"
  /\ Supplied("shouldEnableBrowserGlobals")
  /\ call.options["shouldEnableBrowserGlobals"]
  /\ \E v \in ReturnedValues : IsOverride(v[Len(v)])

(***************************************************************************)
(* C6: under the engine's later-wins merge, with importCycleCheckMode      *)
(* "off" the effective severity of import/no-cycle is off for every file   *)
(* and every setting of the other flags; with "on" the effective severity  *)
(* on every linted file the included import-hygiene entry applies to is    *)
(* the severity that entry assigns, error. Over the modes "on" and "off"   *)
(* (an absent mode included) the rule is enabled on some file only when    *)
(* the mode is "on".                                                       *)
(***************************************************************************)
NoCycle == R("import", "no-cycle")

ModeIs(mode) ==
  Supplied("importCycleCheckMode") /\ call.options["importCycleCheckMode"] = mode

Own(flag) ==
  CASE flag = "shouldEnableTypescript" -> {"typescriptEslintConfig"} \cup ImportHygieneEntries
    [] flag = "importCycleCheckMode" -> {"cycleCheckOverride"}
    [] OTHER -> FlagEntries(flag)

Without(config, names) == SelectSeq(config, LAMBDA e : e.name \notin names)

C7_FlipOneFlag ==
  ByFeatures =>
    \A v \in ReturnedValues :
      /\ \A k \in FlagNames, b \in BOOLEAN :
           (Supplied(k) => b # call.options[k]) =>
             Without(v, Own(k)) =
               Without(generateEslintConfigByFeatures((k :> b) @@ call.options), Own(k))
      /\ \A m \in ModeValues :
           ~ ModeIs(m) =>
             Without(v, Own("importCycleCheckMode")) =
               Without(generateEslintConfigByFeatures(
                         ("importCycleCheckMode" :> m) @@ call.options),
                       Own("importCycleCheckMode"))

C7_Witness ==
  /\ ByFeatures /\ \A k \in FlagNames : Supplied(k)
  /\ call.options["shouldEnableReact"] /\ ~ call.options["shouldEnableA11y"]
  /\ \E v \in ReturnedValues :
       /\ "reactConfig" \in EntryNames(v)
       /\ "reactConfig" \notin EntryNames(generateEslintConfigByFeatures(
            ("shouldEnableReact" :> FALSE) @@ call.options))

(***************************************************************************)
(* C8 (as amended): generateEslintConfigByFeatures called with the empty   *)
(* flag object returns the same sequence as the call with every capability *)
(* flag explicitly false except shouldEnableTypescript, which is           *)
(* explicitly true.                                                        *)
(***************************************************************************)
AllFalse == [k \in FlagNames |-> FALSE]
EmptyOptions == DOMAIN call.options = {}

C8_EmptyEqualsDefaults ==
  (ByFeatures /\ EmptyOptions) =>
    \A v \in ReturnedValues :
      v = generateEslintConfigByFeatures(
            [AllFalse EXCEPT !["shouldEnableTypescript"] = TRUE])

\* C8 as stated: the empty flag object composes like every flag explicitly
\* false, shouldEnableTypescript included.
C8_EmptyEqualsAllFalse ==
  (ByFeatures /\ EmptyOptions) =>
    \A v \in ReturnedValues : v = generateEslintConfigByFeatures(AllFalse)

C8_Witness ==
  /\ ByFeatures /\ EmptyOptions
  /\ \E v \in ReturnedValues : "importEslintTypescriptConfig" \in EntryNames(v)

C10_PartialNeverThrows ==
  ByFeatures =>
    \A i \in DOMAIN history :
      history[i].status = "returned" /\ Len(history[i].value) > 0

C10_Witness ==
  /\ ByFeatures /\ history # <<>>
  /\ Supplied("shouldEnableVitest") /\ ~ Supplied("shouldEnableReact")
  /\ ~ Supplied("importCycleCheckMode")
  /\ history[1].status = "returned" /\ Len(history[1].value) >= 12

(***************************************************************************)
(* C11: generateEslintConfig called with an appType outside {"fullstack",  *)
(* "backendOnly"} throws: every such call ends with an Error whose message *)
(* names the offending value and returns no configuration; it never falls  *)
(* back to a preset.                                                       *)
(***************************************************************************)
AppType == Param(call.options, "appType", "fullstack")

C11_InvalidAppTypeThrows ==
  (ByAppType /\ AppType \notin {"fullstack", "backendOnly"}) =>
    \A i \in DOMAIN history :
      /\ history[i].status = "threw"
      /\ history[i].value = <<>>
      /\ history[i].message = <<"Invalid app type: ", AppType>>

C11_Witness ==
  /\ ByAppType /\ AppType = "staging"
  /\ Len(history) = MaxCalls
  /\ history[1].status = "threw" /\ history[1].message[2] = "staging"

(***************************************************************************)
(* C12: of the options passed to generateEslintConfig alongside appType,   *)
(* only shouldEnableTypescript and importCycleCheckMode reach the          *)
(* composition: the TypeScript fragment is in the result iff the supplied  *)
(* shouldEnableTypescript is true, and every other capability flag         *)
(* supplied is ignored (the call behaves as the call without it).          *)
(***************************************************************************)
PresetKeys == {"appType", "importCycleCheckMode", "shouldEnableTypescript"}

Restrict(options, keys) == [k \in DOMAIN options \cap keys |-> options[k]]

C12_OnlyTypescriptOverrides ==
  ByAppType =>
    \A i \in DOMAIN history :
      /\ history[i] = generateEslintConfig(Restrict(call.options, PresetKeys))
      /\ (history[i].status = "returned" /\ Supplied("shouldEnableTypescript")) =>
           ("typescriptEslintConfig" \in EntryNames(history[i].value)
              <=> call.options["shouldEnableTypescript"])

\* The claim as stated: every capability flag supplied alongside appType
\* decides whether its entries are in the result.
C12_EveryOverrideHonoured ==
  ByAppType =>
    \A v \in ReturnedValues :
      \A k \in FlagNames :
        Supplied(k) =>
          (FlagEntries(k) \subseteq EntryNames(v) <=> call.options[k])

C12_Witness ==
  /\ ByAppType /\ AppType = "fullstack"
  /\ Supplied("shouldEnableReact") /\ ~ call.options["shouldEnableReact"]
  /\ \E v \in ReturnedValues : "reactConfig" \in EntryNames(v)

(***************************************************************************)
(* C13: the fullstack preset composes with React, accessibility, Cypress,  *)
(* Vitest, Storybook, query, router, browser globals and node globals all  *)
(* true (their entries are in the result), GraphQL false (its entry is     *)
(* not), and TypeScript true unless shouldEnableTypescript is supplied;    *)
(* the flag object it passes on gives a value to every parameter the       *)
(* composition reads.                                                      *)
(***************************************************************************)
\* The flags a preset is documented to enable, TypeScript aside.
FullstackEnabled ==
  {"shouldEnableReact", "shouldEnableA11y", "shouldEnableCypress",
   "shouldEnableVitest", "shouldEnableStorybook", "shouldEnableQuery",
   "shouldEnableRouter", "shouldEnableBrowserGlobals",
   "shouldEnableNodeGlobals"}

BackendOnlyEnabled == {"shouldEnableVitest", "shouldEnableNodeGlobals"}

\* v holds the entries of the flags in enabled and of no other flag; the
\* TypeScript entry is decided by shouldEnableTypescript (default true).
ComposedWith(v, enabled) ==
  /\ \A k \in enabled : FlagEntries(k) \subseteq EntryNames(v)
  /\ \A k \in FlagNames \ (enabled \cup {"shouldEnableTypescript"}) :
       FlagEntries(k) \cap EntryNames(v) = {}
  /\ "typescriptEslintConfig" \in EntryNames(v)
       <=> Param(call.options, "shouldEnableTypescript", TRUE)

C13_FullstackPreset ==
  (ByAppType /\ AppType = "fullstack") =>
    /\ \A v \in ReturnedValues : ComposedWith(v, FullstackEnabled)
    /\ \A i \in DOMAIN history : history[i].status = "returned"
    /\ DOMAIN fullstackFlags(
         Param(call.options, "importCycleCheckMode", "off"),
         Param(call.options, "shouldEnableTypescript", TRUE))
       = DOMAIN FeatureDefaults

C13_Witness ==
  /\ ByAppType /\ AppType = "fullstack"
  /\ Supplied("shouldEnableTypescript") /\ ~ call.options["shouldEnableTypescript"]
  /\ \E v \in ReturnedValues :
       /\ "reactConfig" \in EntryNames(v)
       /\ "storybookConfig.stories" \in EntryNames(v)
       /\ "typescriptEslintConfig" \notin EntryNames(v)

(***************************************************************************)
(* C14: the backendOnly preset composes with Vitest and node globals true  *)
(* (their entries are in the result), TypeScript true unless               *)
(* shouldEnableTypescript is supplied, and React, accessibility, Cypress,  *)
(* GraphQL, Storybook, query, router and browser globals all false (none   *)
(* of their entries is in the result).                                     *)
(***************************************************************************)
C14_BackendOnlyPreset ==
  (ByAppType /\ AppType = "backendOnly") =>
    /\ \A v \in ReturnedValues : ComposedWith(v, BackendOnlyEnabled)
    /\ \A i \in DOMAIN history : history[i].status = "returned"

C14_Witness ==
  /\ ByAppType /\ AppType = "backendOnly"
  /\ ~ Supplied("shouldEnableTypescript")
  /\ \E v \in ReturnedValues :
       /\ "vitestConfig" \in EntryNames(v)
       /\ "nodeGlobals" \in EntryNames(v)
       /\ "typescriptEslintConfig" \in EntryNames(v)
       /\ "reactConfig" \notin EntryNames(v)

(***************************************************************************)
(* C15: for the backendOnly preset, with any shouldEnableTypescript and    *)
(* any importCycleCheckMode, no entry of the result assigns a rule of the  *)
(* react or jsx-a11y plugin, so on a JSX file every such rule is off; for  *)
(* the fullstack preset some entry assigns react rules and some entry is   *)
(* scoped to TypeScript file patterns.                                     *)
(***************************************************************************)
\* Every rule some fragment of the library assigns.
CatalogRules ==
  UNION {UNION {DOMAIN catalog[n].items[i].rules : i \in DOMAIN catalog[n].items} :
           n \in DOMAIN catalog}

JsxFiles == {f \in Files : f.base[Len(f.base)] \in {"jsx", "tsx"}}

C15_BackendOnlyNoReact ==
  ByAppType =>
    \A v \in ReturnedValues :
      /\ AppType = "backendOnly" =>
           /\ \A i \in DOMAIN v :
                ~ AssignsPlugin(v[i], "react") /\ ~ AssignsPlugin(v[i], "jsx-a11y")
           /\ \A f \in JsxFiles :
                \A r \in {q \in CatalogRules : q[1] \in {"react", "jsx-a11y"}} :
                  EffectiveSeverity(v, f, r) = "off"
      /\ AppType = "fullstack" =>
           /\ \E i \in DOMAIN v : AssignsPlugin(v[i], "react")
           /\ \E i \in DOMAIN v : v[i].files \cap TsFiles # {}

C15_Witness ==
  /\ ByAppType /\ AppType = "backendOnly"
  /\ Supplied("shouldEnableTypescript") /\ ~ call.options["shouldEnableTypescript"]
  /\ ModeIs("on")
  /\ \E v \in ReturnedValues :
       \E f \in JsxFiles :
         /\ Linted(v, f)
         /\ EffectiveSeverity(v, f, R("react", "button-has-type")) = "off"

(***************************************************************************)
(* C16: the entry that excludes the Storybook tool-config and build-output *)
(* directories (ignores ".storybook" and "storybook-static") is an element *)
(* of the Storybook fragment: it is in the composed sequence iff           *)
(* shouldEnableStorybook is true, together with the Storybook rule         *)
(* entries, and with the flag false files under .storybook are not         *)
(* excluded.                                                               *)
(***************************************************************************)
StorybookDirectories == {".storybook", "storybook-static"}

HasStorybookIgnores(config) ==
  \E i \in DOMAIN config :
    /\ config[i].ignores = StorybookDirectories
    /\ config[i].files = {} /\ config[i].rules = NoRules

StorybookMain == Path(<<".storybook">>, <<"main", "ts">>)

C16_IgnoresIffStorybook ==
  ByFeatures =>
    \A v \in ReturnedValues :
      LET flag == Param(call.options, "shouldEnableStorybook", FALSE)
      IN /\ HasStorybookIgnores(v) <=> flag
         /\ GloballyIgnored(v, StorybookMain) <=> flag
         /\ HasStorybookIgnores(v) <=> \E i \in DOMAIN v : AssignsPlugin(v[i], "storybook")

\* The claim as stated: the excluding entry is in every composed sequence.
C16_IgnoresAlways ==
  \A v \in ReturnedValues : HasStorybookIgnores(v)

C16_Witness ==
  /\ ByFeatures
  /\ Supplied("shouldEnableStorybook") /\ ~ call.options["shouldEnableStorybook"]
  /\ Supplied("shouldEnableTypescript")
  /\ \E v \in ReturnedValues :
       ~ HasStorybookIgnores(v) /\ ~ GloballyIgnored(v, StorybookMain)

(***************************************************************************)
(* C17: for every setting of the other flags: with shouldEnableNodeGlobals *)
(* and shouldEnableBrowserGlobals both true, the effective globals of      *)
(* every linted file include every node global and every browser global;   *)
(* with both false, the effective globals of a file contain a node or      *)
(* browser global only where the Cypress fragment is composed and the file *)
(* is in its scope, and there they contain the browser globals the Cypress *)
(* fragment declares itself.                                               *)
(***************************************************************************)
Flag(key) == FeatureParams(call.options)[key]

InCypressScope(file) ==
  \E pattern \in catalog["cypressConfig"].items[1].files : Matches(file, pattern)

BothTrue == Flag("shouldEnableNodeGlobals") /\ Flag("shouldEnableBrowserGlobals")
BothFalse == ~ Flag("shouldEnableNodeGlobals") /\ ~ Flag("shouldEnableBrowserGlobals")

C17_GlobalsUnion ==
  (ByFeatures /\ (BothTrue \/ BothFalse)) =>
    \A v \in ReturnedValues :
      \A f \in Files :
        LET globals == EffectiveGlobals(v, f)
        IN \/ IF BothTrue
                THEN (globalsNode \cup globalsBrowser) \subseteq globals
                ELSE IF Flag("shouldEnableCypress") /\ InCypressScope(f)
                       THEN /\ globalsBrowser \subseteq globals
                            /\ globals \cap (globalsNode \ globalsBrowser) = {}
                       ELSE globals \cap (globalsNode \cup globalsBrowser) = {}
           \/ ~ Linted(v, f)

\* The claim as stated: with both flags false no file has any node or
\* browser global, whatever the other flags.
C17_NeitherYieldsNone ==
  (ByFeatures /\ (BothTrue \/ BothFalse)) =>
    \A v \in ReturnedValues :
      \A f \in Files :
        LET globals == EffectiveGlobals(v, f)
        IN \/ IF BothTrue
                THEN (globalsNode \cup globalsBrowser) \subseteq globals
                ELSE globals \cap (globalsNode \cup globalsBrowser) = {}
           \/ ~ Linted(v, f)

C17_Witness ==
  /\ ByFeatures /\ Flag("shouldEnableCypress") /\ BothFalse
  /\ \E v \in ReturnedValues :
       \E f \in Files :
         /\ Linted(v, f) /\ InCypressScope(f)
         /\ "window" \in EffectiveGlobals(v, f)
         /\ "process" \notin EffectiveGlobals(v, f)

(***************************************************************************)
(* C18: the default exports are computed once, when the module is loaded:  *)
(* ubaEslintConfig (baseConfig) is the sequence of the fullstack preset    *)
(* with TypeScript enabled, ubaPrettierConfig equals                       *)
(* generatePrettierConfig for appType "fullstack", and no later call of a  *)
(* generator function (nor a later change of the environment) changes      *)
(* either of them.                                                         *)
(***************************************************************************)
ByPrettier == call.fn = "generatePrettierConfig"

FullstackWithTypescript(mode) ==
  generateEslintConfig(
    [appType |-> "fullstack", importCycleCheckMode |-> mode,
     shouldEnableTypescript |-> TRUE])

DefaultsAsLoaded ==
  /\ \E mode \in {"on", "off"} : baseConfig = FullstackWithTypescript(mode)
  /\ baseConfig.status = "returned"
  /\ \A k \in FullstackEnabled \cup {"shouldEnableTypescript"} :
       FlagEntries(k) \subseteq EntryNames(baseConfig.value)
  /\ FlagEntries("shouldEnableGraphql") \cap EntryNames(baseConfig.value) = {}
  /\ ubaPrettierConfig = generatePrettierConfig([appType |-> "fullstack"])

C18_DefaultsComputedOnce ==
  /\ [] DefaultsAsLoaded
  /\ [][baseConfig' = baseConfig /\ ubaPrettierConfig' = ubaPrettierConfig]_vars

C18_Witness ==
  /\ Len(history) = MaxCalls
  /\ ByAppType /\ AppType = "backendOnly"
  /\ history[1].status = "returned"
  /\ "reactConfig" \notin EntryNames(history[1].value)
  /\ env = "true"
  /\ "reactConfig" \in EntryNames(baseConfig.value)
  /\ "cycleCheckOverride" \in EntryNames(baseConfig.value)
  /\ Len(ubaPrettierConfig.plugins) = 2

(***************************************************************************)
(* C19: generatePrettierConfig returns the same fixed option values for    *)
(* every appType, and only the plugin list varies: it is                   *)
(* [packagejson, tailwindcss] for appType "fullstack" and for an absent    *)
(* appType, and [packagejson] alone for "backendOnly".                     *)
(***************************************************************************)
\* The options with the plugin list left out.
FixedOptions(options) == [k \in DOMAIN options \ {"plugins"} |-> options[k]]

C19_PrettierFixedOptions ==
  ByPrettier =>
    \A i \in DOMAIN history :
      /\ history[i].status = "returned"
      /\ FixedOptions(history[i].value) = FixedOptions(ubaPrettierConfig)
      /\ history[i].value.tabWidth = 2 /\ history[i].value.printWidth = 80
      /\ ~ history[i].value.singleQuote
      /\ history[i].value.trailingComma = "all"
      /\ AppType = "fullstack" =>
           history[i].value.plugins =
             <<"prettier-plugin-packagejson", "prettier-plugin-tailwindcss">>
      /\ AppType = "backendOnly" =>
           history[i].value.plugins = <<"prettier-plugin-packagejson">>

C19_Witness ==
  /\ ByPrettier /\ AppType = "backendOnly" /\ Len(history) = MaxCalls
  /\ history[1].value.plugins = <<"prettier-plugin-packagejson">>
  /\ history[1].value.tabWidth = ubaPrettierConfig.tabWidth
  /\ Len(ubaPrettierConfig.plugins) = 2

(***************************************************************************)
(* C20: composition has no side effects: after any sequence of             *)
(* generateEslintConfig / generateEslintConfigByFeatures calls with any    *)
(* flags, every fragment of the library (file scope, rules, globals) is    *)
(* what it was when the module was loaded, and no call changes a sequence  *)
(* an earlier call returned.                                               *)
(***************************************************************************)
C20_NoSideEffects ==
  /\ [] (catalog = FragmentLibrary)
  /\ [][/\ Len(history') >= Len(history)
        /\ SubSeq(history', 1, Len(history)) = history]_vars

C20_Witness ==
  /\ ByFeatures /\ Len(history) = MaxCalls
  /\ Supplied("shouldEnableStorybook") /\ call.options["shouldEnableStorybook"]
  /\ ~ Supplied("importCycleCheckMode")
  /\ catalog["storybookConfig"] = storybookConfig
  /\ catalog["importEslintTypescriptConfig"] = importEslintTypescriptConfig
  /\ \E i \in DOMAIN history[MaxCalls].value :
       IsOverride(history[MaxCalls].value[i])

(***************************************************************************)
(* C21: calls of generateEslintConfigByFeatures and generateEslintConfig   *)
(* (and generatePrettierConfig) by several callers may be interleaved in   *)
(* any order: the result of each call made so far equals the result the    *)
(* same call gives on the module as loaded, whatever calls of other        *)
(* callers came before it, because the calls share only the fragment       *)
(* library, which none of them changes.                                    *)
(***************************************************************************)
\* What call c gives on the module bindings of the current state.
ResultOf(c) ==
  CASE c.fn = "generateEslintConfigByFeatures" ->
         Returned(generateEslintConfigByFeatures(c.options))
    [] c.fn = "generateEslintConfig" -> generateEslintConfig(c.options)
    [] c.fn = "generatePrettierConfig" ->
         Returned(generatePrettierConfig(c.options))

C21_InterleavedCalls ==
  /\ catalog = FragmentLibrary
  /\ Len(made) = Len(history)
  /\ \A i \in DOMAIN history : history[i] = ResultOf(made[i])
  /\ \A i, j \in DOMAIN history : made[i] = made[j] => history[i] = history[j]

C21_Witness ==
  /\ Len(history) = MaxCalls
  /\ made[1] = [fn |-> "generateEslintConfigByFeatures",
                options |-> [shouldEnableStorybook |-> TRUE]]
  /\ made[2] = [fn |-> "generateEslintConfig", options |-> <<>>]
  /\ history[2] = ResultOf(made[2])
  /\ history[1] # history[2]

(***************************************************************************)
(* C22: with shouldEnableTypescript false, no entry of the composed        *)
(* sequence selects the TypeScript parser for a .ts file or assigns an     *)
(* @typescript-eslint rule to it, so the file is parsed by the default     *)
(* JavaScript parser (TypeScript-only syntax is a parse error without a    *)
(* rule identifier); with shouldEnableTypescript true the TypeScript        *)
(* fragment applies to the same file and selects its parser.               *)
(***************************************************************************)
TypescriptParser == "@typescript-eslint/parser"

TypescriptFile == Path(<<"src">>, <<"app", "ts">>)

C22_TypescriptOffFallsBack ==
  ByFeatures =>
    \A v \in ReturnedValues :
      IF Flag("shouldEnableTypescript")
        THEN /\ \E i \in DOMAIN v :
                  /\ v[i].name = "typescriptEslintConfig"
                  /\ Applies(v[i], TypescriptFile)
             /\ EffectiveParser(v, TypescriptFile) = TypescriptParser
             /\ EffectiveSeverity(v, TypescriptFile,
                  R("@typescript-eslint", "no-explicit-any")) = "error"
        ELSE /\ \A i \in DOMAIN v :
                  Applies(v[i], TypescriptFile) =>
                    /\ v[i].parser # TypescriptParser
                    /\ ~ AssignsPlugin(v[i], "@typescript-eslint")
             /\ Linted(v, TypescriptFile)
             /\ EffectiveParser(v, TypescriptFile) = DefaultParser

C22_Witness ==
  /\ ByFeatures
  /\ DOMAIN call.options = {"shouldEnableTypescript", "shouldEnableNodeGlobals"}
  /\ ~ call.options["shouldEnableTypescript"]
  /\ call.options["shouldEnableNodeGlobals"]
  /\ \E v \in ReturnedValues :
       /\ Linted(v, TypescriptFile)
       /\ EffectiveParser(v, TypescriptFile) = DefaultParser

(***************************************************************************)
(* C23: for every assignment of the other flags and the mode, the sequence *)
(* composed with shouldEnableTypescript false has strictly fewer entries   *)
(* than the one composed with shouldEnableTypescript true, and is not      *)
(* empty.                                                                  *)
(***************************************************************************)
\* The caller's options with shouldEnableTypescript set to b.
WithTypescript(b) == ("shouldEnableTypescript" :> b) @@ call.options

C23_TypescriptOffSmaller ==
  ByFeatures =>
    \A v \in ReturnedValues :
      LET without == generateEslintConfigByFeatures(WithTypescript(FALSE))
          with == generateEslintConfigByFeatures(WithTypescript(TRUE))
      IN /\ v = IF Flag("shouldEnableTypescript") THEN with ELSE without
         /\ Len(without) < Len(with)
         /\ Len(without) > 0

C23_Witness ==
  /\ ByFeatures
  /\ DOMAIN call.options = {"shouldEnableTypescript", "shouldEnableNodeGlobals"}
  /\ ~ call.options["shouldEnableTypescript"]
  /\ call.options["shouldEnableNodeGlobals"]
  /\ \E v \in ReturnedValues :
       Len(v) + 1 = Len(generateEslintConfigByFeatures(WithTypescript(TRUE)))

(***************************************************************************)
(* C24: for generateEslintConfig, importCycleCheckMode "off" is the        *)
(* setting under which import/no-cycle is disabled, on every file (its     *)
(* effective severity is off), and "on" is the setting under which the     *)
(* rule is enforced: on every linted file the import-hygiene entry applies *)
(* to, its effective severity is that entry's error level.                 *)
(***************************************************************************)
\* The linted files of config an import-hygiene entry of config applies to.
Covered(config) ==
  {f \in Files :
     /\ \E i \in DOMAIN config :
          config[i].name \in ImportHygieneEntries /\ Applies(config[i], f)
     /\ Linted(config, f)}

TestJs == Path(<<>>, <<"test", "js">>)

\* The import/ rules of the default export's configuration for test.js.
DefaultImportRules ==
  {r \in EffectiveRules(baseConfig.value, TestJs) : r[1] = "import"}

AlwaysIncluded ==
  {"eslintConfig", "perfectionist.configs.recommended-alphabetical",
   "filenameConfig", "functionNameConfig", "promiseConfig", "unicornConfig",
   "canonicalConfig", "pluginChaiFriendly.configs.recommendedFlat"}

C26_AlwaysIncluded ==
  \A v \in ReturnedValues :
    /\ \A n \in AlwaysIncluded :
         Cardinality({i \in DOMAIN v : v[i].name = n}) = 1
    /\ v[1] = eslintConfig.items[1]

C26_Witness ==
  /\ ByFeatures /\ \A k \in FlagNames : Supplied(k) /\ ~ call.options[k]
  /\ ModeIs("on")
  /\ \E v \in ReturnedValues :
       EntryNames(v) = AlwaysIncluded \cup {"importEslintJavascriptConfig"}

(***************************************************************************)
(* C27: when shouldEnableCypress is true, on every linted file in the      *)
(* Cypress fragment's scope (cypress/**/*.ts, cypress/**/*.tsx,            *)
(* **/*.test.tsx) the effective severity of promise/always-return,         *)
(* promise/catch-or-return and promise/prefer-await-to-then is off: no     *)
(* entry later in the sequence assigns those rules for such a file.        *)
(***************************************************************************)
RelaxedInCypress ==
  {R("promise", "always-return"), R("promise", "catch-or-return"),
   R("promise", "prefer-await-to-then")}

Extensions == R("import", "extensions")

JavascriptVariant == catalog["importEslintJavascriptConfig"].items[1]
TypescriptVariant == catalog["importEslintTypescriptConfig"].items[1]

C28_VariantsDifferInExtensions ==
  /\ DOMAIN JavascriptVariant.rules = DOMAIN TypescriptVariant.rules
  /\ \A r \in DOMAIN JavascriptVariant.rules :
       /\ r[1] = "import"
       /\ r # Extensions =>
            Severity(JavascriptVariant.rules[r]) = Severity(TypescriptVariant.rules[r])
  /\ Severity(JavascriptVariant.rules[Extensions]) = "off"
  /\ Severity(TypescriptVariant.rules[Extensions]) = "error"
  /\ JavascriptVariant.files = {"**/*.js", "**/*.jsx", "**/*.mjs", "**/*.cjs"}
  /\ TypescriptVariant.files = {"**/*.ts", "**/*.tsx", "**/*.mts", "**/*.cts"}
  /\ \A f \in Files :
       ~ (Applies(JavascriptVariant, f) /\ Applies(TypescriptVariant, f))

C28_Witness ==
  /\ Len(history) = MaxCalls
  /\ made[1].fn = "generateEslintConfigByFeatures"
  /\ made[1].options = [shouldEnableTypescript |-> FALSE]
  /\ \E i \in DOMAIN history[1].value :
       /\ history[1].value[i] = JavascriptVariant
       /\ Applies(history[1].value[i], TestJs)
       /\ ~ Applies(TypescriptVariant, TestJs)
  /\ Applies(TypescriptVariant, Path(<<"src">>, <<"util", "cts">>))

(***************************************************************************)
(* C29: importCycleCheckMode is two-valued: with the mode absent, both     *)
(* generateEslintConfigByFeatures and generateEslintConfig behave as with  *)
(* "off" (the override is appended); with any supplied value other than    *)
(* the string "off" ("on", and equally "ci" or "always") they return the   *)
(* sequence "on" gives, with no override appended, and throw no error on   *)
(* account of the mode.                                                    *)
(***************************************************************************)
\* The caller's call with importCycleCheckMode set to mode.
WithMode(mode) ==
  [call EXCEPT !.options = ("importCycleCheckMode" :> mode) @@ call.options]

HasOverride(config) == \E i \in DOMAIN config : IsOverride(config[i])

C29_ModeTwoValued ==
  ((ByFeatures \/ ByAppType) /\ history # <<>>) =>
    /\ \A i \in DOMAIN history : history[i] = history[1]
    /\ IF ~ Supplied("importCycleCheckMode")
         THEN /\ history[1] = ResultOf(WithMode("off"))
              /\ history[1].status = "returned" => HasOverride(history[1].value)
         ELSE ~ ModeIs("off") =>
                /\ history[1] = ResultOf(WithMode("on"))
                /\ history[1] = ResultOf(WithMode("always"))
                /\ history[1].status = "returned" => ~ HasOverride(history[1].value)
                /\ history[1].status = "threw" =>
                     AppType \notin {"fullstack", "backendOnly"}

C29_Witness ==
  /\ ByAppType /\ ModeIs("ci") /\ AppType = "backendOnly"
  /\ Len(history) = MaxCalls
  /\ history[1].status = "returned"
  /\ ~ HasOverride(history[1].value)
  /\ HasOverride(ResultOf(WithMode("off")).value)

(***************************************************************************)
(* C30: the default export depends on the process environment at module    *)
(* load and on nothing else: it is the fullstack sequence with TypeScript, *)
(* ending with the cycle-check override (import/no-cycle off) iff CI is    *)
(* unset or empty at load; when CI is set at load import/no-cycle keeps    *)
(* the import-hygiene fragment's error severity; the value is fixed at     *)
(* load and does not follow later changes of the variable.                 *)
(***************************************************************************)
DefaultEndsWithOverride == IsOverride(baseConfig.value[Len(baseConfig.value)])

C30_DefaultFollowsEnvAtLoad ==
  /\ (env \in {EnvUnset, ""}) <=> DefaultEndsWithOverride
  /\ baseConfig =
       FullstackWithTypescript(IF env \in {EnvUnset, ""} THEN "off" ELSE "on")
  /\ [] LET severity == EffectiveSeverity(baseConfig.value,
                          Path(<<"src">>, <<"app", "ts">>), NoCycle)
        IN /\ baseConfig.status = "returned"
           /\ DefaultEndsWithOverride <=> HasOverride(baseConfig.value)
           /\ severity = IF DefaultEndsWithOverride THEN "off" ELSE "error"
  /\ [][baseConfig' = baseConfig]_vars

\* CI was set after the module was loaded without it: the default still ends
\* with the override.
C30_Witness ==
  /\ env = "true"
  /\ DefaultEndsWithOverride
  /\ Len(history) = MaxCalls /\ ByAppType /\ ModeIs("on")
  /\ history[1].status = "returned" /\ ~ HasOverride(history[1].value)

====
